---------------------------- MODULE Spec2Model ----------------------------
(***************************************************************************)
(* Model of the llama.cpp JNI session layer (app/src/main/cpp/llama-jni.cpp):*)
(* the global session (model, context, vocab, initialized flag), the prompt *)
(* cache record, and the handlers nativeLoadModel, nativeFreeModel,         *)
(* nativeGenerate, nativeGenerateWithCache, nativeGenerateStreaming and     *)
(* nativeGetTokenCount.  Every handler is a sequence of steps of one caller *)
(* (pc is the caller's position); nativeGetTokenCount takes no lock in the  *)
(* source and is therefore a step that may fall between the steps of a      *)
(* handler that holds the lock.                                             *)
(***************************************************************************)
EXTENDS Integers, Sequences, FiniteSets, TLC

(***************************************************************************)
(* Bounds of the model.                                                    *)
(***************************************************************************)
\* resident positions the decode state can hold (stands for n_ctx)
MaxKv == 7
\* largest maxTokens argument a caller passes
MaxTokensArg == 1
\* handles the allocator can hand out at the same time
MaxHandles == 2

(***************************************************************************)
(* Program constants.                                                      *)
(***************************************************************************)
CHUNK_SIZE == 2048
USER_CHUNK_SIZE == 2048
CtxFloor == 4096

NULL == 0

\* token ids: a text byte b is tokenized to the token b; the begin marker and
\* the end-of-generation marker are tokens outside the byte range
TokBos == 256
TokEos == 257

\* the framing strings of the chat template, each one element of a text
\* "<|startoftext|><|im_start|>system\n", "<|im_end|>\n", "<|im_start|>user\n",
\* and "<|im_end|>\n<|im_start|>assistant\n"
SysOpen == 1001
ImEnd == 1002
UserOpen == 1003
AsstOpen == 1004

(***************************************************************************)
(* Inputs.                                                                 *)
(***************************************************************************)
\* system prompts: "" and " " (they differ by one trailing space)
SysPrompts == {<<>>, <<32>>}
UserTexts == {<<>>}
Prompts == {<<>>}
EstTexts == {<<>>, <<97, 98, 99, 100, 101>>}
MaxTokensArgs == 0..MaxTokensArg

\* the callback objects: one with all three methods, and one lacking each
AllMethods == {"onToken", "onComplete", "onError"}
Callbacks == {AllMethods} \cup {AllMethods \ {m} : m \in AllMethods}

\* GenerationParams() as constructed (temperature, topP, minP in hundredths)
DefaultParams == [maxTokens |-> 256, temperature |-> 70, topK |-> 40,
                  topP |-> 90, minP |-> 5, nThreads |-> 4, ctxSize |-> 2048]

\* arguments of nativeLoadModel
LoadArgs == {[nThreads |-> 2, ctxSize |-> 8192, temperature |-> 20,
              topK |-> 10, topP |-> 95, minP |-> 1]}

\* the vocabulary of the model file nativeLoadModel loads, which is what the
\* sampler can draw: end of generation, and "A"
GenVocab == {TokEos, 65}

VARIABLES
    g_model, g_context, g_vocab, g_initialized,
    g_cached_system_tokens, g_cached_system_length, g_cached_system_prompt,
    g_params,
    liveModels, liveContexts, kv,
    pc, args, cache_hit, tokens, tokens_processed, i, new_token_id, response,
    events, ret, fed, est,
    params0, freshLoad, warm, sinceUnload, loaded0, unloadsInARow,
    sampled, kv0, record0,
    g_mutex, nested

\* g_*: the globals of llama-jni.cpp.  liveModels, liveContexts, kv: the
\* backend's allocations and the memory of sequence 0 of the live context.
\* pc .. response: the position and locals of the handler in progress.
\* events: the callback deliveries of the call; ret: its return value;
\* fed: the batches the call passed to llama_decode (pos -1: the call failed);
\* est: the result of the last nativeGetTokenCount step.
\* g_mutex: the session lock (line 21), "held" from a locking handler's first
\* statement to its return; nested: the locking operation a callback
\* of the call in progress has called on the session, or
\* "estimateTokenCount" when the callbacks called nativeGetTokenCount only
\* ("none": no callback of the call has called into the session).
\* History variables, read by the properties only:
\*   params0       g_params when the call in progress began
\*   loaded0       g_initialized when the load in progress began
\*   freshLoad     no cache decision was taken since the last successful load
\*   warm          the prefix the last Miss turn recorded, until an unload or a
\*                 decision for another prefix
\*   sinceUnload   no load has succeeded since the last unload
\*   unloadsInARow the number of unloads since any other call (at most 2)
\*   sampled       the tokens llama_sampler_sample returned in the turn in progress
\*   kv0, record0  the decode state and the cache record when the turn in
\*                 progress began
globals == <<g_model, g_context, g_vocab, g_initialized>>
record == <<g_cached_system_tokens, g_cached_system_length, g_cached_system_prompt>>
backend == <<liveModels, liveContexts, kv>>
locals == <<args, cache_hit, tokens, tokens_processed, i, new_token_id, response>>
callHist == <<params0, freshLoad, warm, sinceUnload, loaded0>>
turnHist == <<sampled, kv0, record0>>
history == <<callHist, unloadsInARow, turnHist>>
lock == <<g_mutex, nested>>
vars == <<globals, record, g_params, backend, pc, locals, events, ret, fed, est, history,
          lock>>

(***************************************************************************)
(* Values.                                                                 *)
(***************************************************************************)
NoArgs == [op |-> "none", sys |-> <<>>, text |-> <<>>, readable |-> TRUE,
           maxTokens |-> 0, cb |-> {}, load |-> DefaultParams]
NoRet == [kind |-> "none", ok |-> FALSE, err |-> "", text |-> <<>>]
NoEst == [path |-> "none", text |-> <<>>, value |-> 0]
NoWarm == <<-1>>
NoRecord == <<<<>>, 0, <<>>>>

BoolRet(b) == [kind |-> "bool", ok |-> b, err |-> "", text |-> <<>>]
\* JNI_FALSE, with the message the handler logs before it returns
LoadFailed(msg) == [kind |-> "bool", ok |-> FALSE, err |-> msg, text |-> <<>>]
ErrRet(e) == [kind |-> "error", ok |-> FALSE, err |-> e, text |-> <<>>]
TextRet(t) == [kind |-> "text", ok |-> TRUE, err |-> "", text |-> t]
VoidRet == [kind |-> "void", ok |-> TRUE, err |-> "", text |-> <<>>]

Min(a, b) == IF a < b THEN a ELSE b
Max(a, b) == IF a > b THEN a ELSE b

(***************************************************************************)
(* The backend (llama.cpp), at its interface.                              *)
(***************************************************************************)
\* llama_tokenize: one token per element of the text, after the begin marker
\* when add_special is set
Tokenize(text, add_special) ==
    (IF add_special THEN <<TokBos>> ELSE <<>>) \o text

\* llama_token_to_piece: the bytes of a token
\* a byte token b yields the byte b; the tokens from 300 on are pieces of
\* several bytes: the first two bytes of a euro sign, e-acute, the euro sign,
\* an emoji, and the first two and the first three bytes of the emoji; the
\* token 306 has no bytes (llama_token_to_piece returns 0)
TokenToPiece(tok) ==
    CASE tok = 300 -> <<226, 130>>
      [] tok = 301 -> <<195, 169>>
      [] tok = 302 -> <<226, 130, 172>>
      [] tok = 303 -> <<240, 159, 152, 128>>
      [] tok = 304 -> <<240, 159>>
      [] tok = 305 -> <<240, 159, 152>>
      [] tok = 306 -> <<>>
      [] OTHER -> <<tok>>

\* llama_vocab_is_eog
IsEog(tok) == tok = TokEos

\* a handle the allocator is not using
FreshHandle(used) == CHOOSE h \in 1..MaxHandles : h \notin used /\ \A k \in 1..(h-1) : k \in used

\* llama_memory_seq_pos_max(mem, 0): -1 when the sequence is empty
SeqPosMax(mem) == Len(mem) - 1

\* llama_memory_seq_rm(mem, 0, p0, -1): drop every position >= p0
SeqRmFrom(mem, p0) == SubSeq(mem, 1, Min(p0, Len(mem)))

\* llama_batch_get_one + llama_decode: the batch goes to the next positions
DecodeInto(mem, batch) == mem \o batch

\* the live context g_context points to: its memory has `cells` positions,
\* and its model's vocabulary is `vocab`
Context == CHOOSE c \in liveContexts : c.id = g_context

\* llama_decode can only succeed when the batch fits the context
CanDecode(mem, batch) == Len(mem) + Len(batch) <= Context.cells

(***************************************************************************)
(* The chat template.                                                      *)
(***************************************************************************)
FormatSys(sysStr) == <<SysOpen>> \o sysStr \o <<ImEnd>>
FormatUser(userStr) == <<UserOpen>> \o userStr \o <<AsstOpen>>

(***************************************************************************)
(* UTF-8 sanitizer of the response.                                        *)
(***************************************************************************)
\* any byte with the high bit set is taken for a continuation byte
IsCont_Wide(b) == b >= 128

\* the mask written 0xE0
IsCont_Narrow(b) == b >= 128 /\ b <= 159

IsCont(b) == b >= 128 /\ b <= 191

RECURSIVE SanitizeFrom(_, _)
SanitizeFrom(s, j) ==
    IF j > Len(s) THEN <<>>
    ELSE LET c == s[j] IN
         IF c <= 127 THEN <<c>> \o SanitizeFrom(s, j + 1)
         ELSE IF c >= 192 /\ c <= 223 /\ j + 1 <= Len(s) /\ IsCont(s[j + 1])
              THEN <<c, s[j + 1]>> \o SanitizeFrom(s, j + 2)
         ELSE IF c >= 224 /\ c <= 239 /\ j + 2 <= Len(s)
                 /\ IsCont(s[j + 1]) /\ IsCont(s[j + 2])
              THEN <<c, s[j + 1], s[j + 2]>> \o SanitizeFrom(s, j + 3)
         ELSE IF c >= 240 /\ c <= 247 /\ j + 3 <= Len(s)
                 /\ IsCont(s[j + 1]) /\ IsCont(s[j + 2]) /\ IsCont(s[j + 3])
              THEN <<c, s[j + 1], s[j + 2], s[j + 3]>> \o SanitizeFrom(s, j + 4)
         ELSE SanitizeFrom(s, j + 1)

\* the response is handed on without the sanitizing pass
Sanitize_Unchecked(s) == s

Sanitize(s) == SanitizeFrom(s, 1)

\* env->NewStringUTF(str.c_str()): the Java string holds the bytes before the
\* first zero byte
NewStringUTF(str) ==
    LET zeros == {k \in 1..Len(str) : str[k] = 0} IN
    IF zeros = {} THEN str
    ELSE SubSeq(str, 1, (CHOOSE k \in zeros : \A z \in zeros : k <= z) - 1)

(***************************************************************************)
(* Initial state: the globals as the translation unit initializes them.    *)
(***************************************************************************)
Init ==
    /\ g_model = NULL /\ g_context = NULL /\ g_vocab = NULL
    /\ g_initialized = FALSE
    /\ g_cached_system_tokens = <<>>
    /\ g_cached_system_length = 0
    /\ g_cached_system_prompt = <<>>
    /\ g_params = DefaultParams
    /\ liveModels = {} /\ liveContexts = {} /\ kv = <<>>
    /\ pc = "idle"
    /\ args = NoArgs /\ cache_hit = FALSE /\ tokens = <<>>
    /\ tokens_processed = 0 /\ i = 0 /\ new_token_id = NULL /\ response = <<>>
    /\ events = <<>> /\ ret = NoRet /\ fed = <<>> /\ est = NoEst
    /\ params0 = DefaultParams /\ freshLoad = FALSE /\ warm = NoWarm
    /\ sinceUnload = FALSE /\ loaded0 = FALSE /\ unloadsInARow = 0
    /\ sampled = <<>> /\ kv0 = <<>> /\ record0 = NoRecord
    /\ g_mutex = "free" /\ nested = "none"

\* the handler returns r: the caller sees it at pc = "done"
Returns(r) == pc' = "done" /\ ret' = r

\* the handlers that open with std::lock_guard<std::mutex> lock(g_mutex)
LockingCalls == {"loadModel", "unloadModel", "generate", "generateWithCache",
                 "generateStreaming"}

\* the handler is inside CallVoidMethod: the callback is running and calls
\* into the session before it returns
CallbackPcs == {"str_on_token", "str_on_terminal"}

\* the guard is destroyed before the callbacks are delivered
lock_guard_ReleasedBeforeCallbacks ==
    g_mutex' = (IF pc' \in {"idle", "done"} \cup CallbackPcs THEN "free" ELSE "held")

\* std::lock_guard<std::mutex> lock(g_mutex): locked by the handler's first
\* statement, unlocked by the destructor on whichever return ends the handler
lock_guard ==
    g_mutex' = (IF pc' \in {"idle", "done"} THEN "free" ELSE "held")

\* what the callbacks of the call in progress have called is kept until the
\* caller has taken the call's result
NestedKept == nested' = (IF pc' = "idle" THEN "none" ELSE nested)

\* llama_free(ctx) / llama_model_free(model)
FreeContext(ctx) == {c \in liveContexts : c.id # ctx}
FreeModel(m) == liveModels \ {m}

\* the guard every generation handler starts with
NotReady == ~g_initialized \/ g_model = NULL \/ g_context = NULL

(***************************************************************************)
(* nativeLoadModel                                                         *)
(***************************************************************************)
nativeLoadModel_Enter ==
    /\ pc = "idle"
    /\ \E a \in LoadArgs : args' = [NoArgs EXCEPT !.op = "load", !.load = a]
    /\ pc' = "load_free_context"
    /\ params0' = g_params /\ loaded0' = g_initialized /\ unloadsInARow' = 0
    /\ events' = <<>> /\ ret' = NoRet /\ fed' = <<>>
    /\ UNCHANGED <<globals, record, g_params, backend, cache_hit, tokens,
                   tokens_processed, i, new_token_id, response,
                   freshLoad, warm, sinceUnload, turnHist>>

\* releasing the loaded model also clears the prompt cache
LoadFreeExistingContext_ClearsRecord ==
    /\ pc = "load_free_context"
    /\ IF g_initialized
       THEN /\ IF g_context # NULL
               THEN /\ liveContexts' = FreeContext(g_context)
                    /\ kv' = <<>>
                    /\ g_context' = NULL
               ELSE UNCHANGED <<liveContexts, kv, g_context>>
            /\ g_cached_system_tokens' = <<>>
            /\ g_cached_system_length' = 0
            /\ g_cached_system_prompt' = <<>>
            /\ pc' = "load_free_model"
       ELSE /\ UNCHANGED <<liveContexts, kv, g_context, record>>
            /\ pc' = "load_get_path"
    /\ UNCHANGED <<g_model, g_vocab, g_initialized, g_params, liveModels,
                   locals, events, ret, fed, history>>

\* lines 66-71: if (g_initialized) { if (g_context) { llama_free; = nullptr } ...
LoadFreeExistingContext ==
    /\ pc = "load_free_context"
    /\ IF g_initialized
       THEN /\ IF g_context # NULL
               THEN /\ liveContexts' = FreeContext(g_context)
                    /\ kv' = <<>>
                    /\ g_context' = NULL
               ELSE UNCHANGED <<liveContexts, kv, g_context>>
            /\ pc' = "load_free_model"
       ELSE /\ UNCHANGED <<liveContexts, kv, g_context>>
            /\ pc' = "load_get_path"
    /\ UNCHANGED <<g_model, g_vocab, g_initialized, record, g_params, liveModels,
                   locals, events, ret, fed, history>>

\* the old model's pointer is dropped without llama_model_free
LoadFreeExistingModel_Leak ==
    /\ pc = "load_free_model"
    /\ g_model' = NULL
    /\ g_vocab' = NULL
    /\ g_initialized' = FALSE
    /\ pc' = "load_get_path"
    /\ UNCHANGED <<g_context, record, g_params, backend,
                   locals, events, ret, fed, history>>

\* the initialized flag is not reset when the loaded model is released
LoadFreeExistingModel_StaysInitialized ==
    /\ pc = "load_free_model"
    /\ IF g_model # NULL
       THEN liveModels' = FreeModel(g_model) /\ g_model' = NULL
       ELSE UNCHANGED <<liveModels, g_model>>
    /\ g_vocab' = NULL
    /\ pc' = "load_get_path"
    /\ UNCHANGED <<g_context, g_initialized, record, g_params, liveContexts, kv,
                   locals, events, ret, fed, history>>

\* lines 72-77: ... if (g_model) { llama_model_free; = nullptr } g_vocab, g_initialized }
LoadFreeExistingModel ==
    /\ pc = "load_free_model"
    /\ IF g_model # NULL
       THEN liveModels' = FreeModel(g_model) /\ g_model' = NULL
       ELSE UNCHANGED <<liveModels, g_model>>
    /\ g_vocab' = NULL
    /\ g_initialized' = FALSE
    /\ pc' = "load_get_path"
    /\ UNCHANGED <<g_context, record, g_params, liveContexts, kv,
                   locals, events, ret, fed, history>>

\* lines 80-84: GetStringUTFChars(modelPath)
LoadGetPath ==
    /\ pc = "load_get_path"
    /\ \E ok \in BOOLEAN :
          IF ok THEN pc' = "load_open_file" /\ ret' = ret
          ELSE Returns(LoadFailed("Failed to get model path string"))
    /\ UNCHANGED <<globals, record, g_params, backend, locals, events, fed, history>>

\* lines 89-99: fopen(path, "rb")
LoadOpenFile ==
    /\ pc = "load_open_file"
    /\ \E ok \in BOOLEAN :
          IF ok THEN pc' = "load_model" /\ ret' = ret
          ELSE Returns(LoadFailed("Cannot open model file"))
    /\ UNCHANGED <<globals, record, g_params, backend, locals, events, fed, history>>

\* lines 114-120: g_model = llama_model_load_from_file(...)
LoadModelFromFile ==
    /\ pc = "load_model"
    /\ \E ok \in BOOLEAN :
          IF ok /\ Cardinality(liveModels) < MaxHandles
          THEN /\ g_model' = FreshHandle(liveModels)
               /\ liveModels' = liveModels \cup {FreshHandle(liveModels)}
               /\ pc' = "load_get_vocab" /\ ret' = ret
          ELSE /\ g_model' = NULL
               /\ liveModels' = liveModels
               /\ Returns(LoadFailed("Failed to load model from file"))
    /\ UNCHANGED <<g_context, g_vocab, g_initialized, record, g_params,
                   liveContexts, kv, locals, events, fed, history>>

\* the vocab failure path returns without llama_model_free
LoadGetVocab_Leak ==
    /\ pc = "load_get_vocab"
    /\ \E ok \in BOOLEAN :
          IF ok
          THEN /\ g_vocab' = g_model
               /\ UNCHANGED <<g_model, liveModels>>
               /\ pc' = "load_init_context" /\ ret' = ret
          ELSE /\ g_vocab' = NULL
               /\ UNCHANGED liveModels
               /\ g_model' = NULL
               /\ Returns(LoadFailed("Failed to get vocab from model"))
    /\ UNCHANGED <<g_context, g_initialized, record, g_params,
                   liveContexts, kv, locals, events, fed, history>>

\* lines 125-132: g_vocab = llama_model_get_vocab(g_model)
LoadGetVocab ==
    /\ pc = "load_get_vocab"
    /\ \E ok \in BOOLEAN :
          IF ok
          THEN /\ g_vocab' = g_model
               /\ UNCHANGED <<g_model, liveModels>>
               /\ pc' = "load_init_context" /\ ret' = ret
          ELSE /\ g_vocab' = NULL
               /\ liveModels' = FreeModel(g_model)
               /\ g_model' = NULL
               /\ Returns(LoadFailed("Failed to get vocab from model"))
    /\ UNCHANGED <<g_context, g_initialized, record, g_params,
                   liveContexts, kv, locals, events, fed, history>>

\* lines 137-187, 214-215: llama_init_from_model, store the parameters
LoadInitContext ==
    /\ pc = "load_init_context"
    /\ \E ok \in BOOLEAN :
          IF ok /\ Cardinality(liveContexts) < MaxHandles
          THEN LET h == FreshHandle({c.id : c \in liveContexts}) IN
               /\ g_context' = h
               /\ liveContexts' = liveContexts \cup
                      {[id |-> h, model |-> g_model,
                        n_ctx |-> Max(args.load.ctxSize, CtxFloor),
                        cells |-> MaxKv, vocab |-> GenVocab]}
               /\ kv' = <<>>
               /\ g_params' = [g_params EXCEPT
                                  !.nThreads = args.load.nThreads,
                                  !.ctxSize = args.load.ctxSize,
                                  !.temperature = args.load.temperature,
                                  !.topK = args.load.topK,
                                  !.topP = args.load.topP,
                                  !.minP = args.load.minP]
               /\ g_initialized' = TRUE
               /\ UNCHANGED <<g_model, g_vocab, liveModels>>
               /\ freshLoad' = TRUE /\ sinceUnload' = FALSE
               /\ Returns(BoolRet(TRUE))
          ELSE /\ g_context' = NULL
               /\ liveModels' = FreeModel(g_model)
               /\ g_model' = NULL
               /\ g_vocab' = NULL
               /\ UNCHANGED <<g_initialized, g_params, liveContexts, kv,
                              freshLoad, sinceUnload>>
               /\ Returns(LoadFailed("Failed to create context"))
    /\ UNCHANGED <<record, locals, events, fed, params0, warm, loaded0, unloadsInARow,
                   turnHist>>

(***************************************************************************)
(* nativeFreeModel                                                         *)
(***************************************************************************)
\* the cached token count is not reset
nativeFreeModel_KeepsLength ==
    /\ pc = "idle"
    /\ args' = [NoArgs EXCEPT !.op = "unload"]
    /\ IF g_context # NULL
       THEN liveContexts' = FreeContext(g_context) /\ kv' = <<>> /\ g_context' = NULL
       ELSE UNCHANGED <<liveContexts, kv, g_context>>
    /\ IF g_model # NULL
       THEN liveModels' = FreeModel(g_model) /\ g_model' = NULL
       ELSE UNCHANGED <<liveModels, g_model>>
    /\ g_vocab' = NULL
    /\ g_initialized' = FALSE
    /\ g_cached_system_tokens' = <<>>
    /\ g_cached_system_prompt' = <<>>
    /\ sinceUnload' = TRUE
    /\ warm' = NoWarm
    /\ unloadsInARow' = Min(unloadsInARow + 1, 2)
    /\ events' = <<>> /\ fed' = <<>>
    /\ Returns(VoidRet)
    /\ UNCHANGED <<g_params, g_cached_system_length, cache_hit, tokens,
                   tokens_processed, i, new_token_id, response, params0,
                   freshLoad, loaded0, turnHist>>

\* lines 398-423
nativeFreeModel ==
    /\ pc = "idle"
    /\ args' = [NoArgs EXCEPT !.op = "unload"]
    /\ IF g_context # NULL
       THEN liveContexts' = FreeContext(g_context) /\ kv' = <<>> /\ g_context' = NULL
       ELSE UNCHANGED <<liveContexts, kv, g_context>>
    /\ IF g_model # NULL
       THEN liveModels' = FreeModel(g_model) /\ g_model' = NULL
       ELSE UNCHANGED <<liveModels, g_model>>
    /\ g_vocab' = NULL
    /\ g_initialized' = FALSE
    /\ g_cached_system_tokens' = <<>>
    /\ g_cached_system_length' = 0
    /\ g_cached_system_prompt' = <<>>
    /\ sinceUnload' = TRUE
    /\ warm' = NoWarm
    /\ unloadsInARow' = Min(unloadsInARow + 1, 2)
    /\ events' = <<>> /\ fed' = <<>>
    /\ Returns(VoidRet)
    /\ UNCHANGED <<g_params, cache_hit, tokens, tokens_processed, i,
                   new_token_id, response, params0, freshLoad, loaded0, turnHist>>

(***************************************************************************)
(* nativeGetTokenCount: takes no lock, so it is a step of another thread    *)
(* that can fall between the steps of a handler.  It reads g_initialized    *)
(* and g_vocab only, which nativeLoadModel and nativeFreeModel alone write: *)
(* it is placed between calls and between the steps of a load.              *)
(***************************************************************************)
EstimatePcs == {"idle", "done", "load_free_context", "load_free_model",
                "load_get_path", "load_open_file", "load_model",
                "load_get_vocab", "load_init_context"}

\* && written for ||
UseFallback_And == ~g_initialized /\ g_vocab = NULL

\* line 749
UseFallback == ~g_initialized \/ g_vocab = NULL

nativeGetTokenCount ==
    /\ pc \in EstimatePcs \cup CallbackPcs
    /\ \E text \in EstTexts :
          IF UseFallback
          THEN est' = [path |-> "fallback", text |-> text, value |-> Len(text) \div 4]
          ELSE LET n_tokens == Len(Tokenize(text, FALSE)) IN
               IF n_tokens > 0
               THEN est' = [path |-> "tokenizer", text |-> text, value |-> n_tokens]
               \* line 763 reads the released string: any length can result
               ELSE \E len \in 0..Len(text) :
                       est' = [path |-> "tokenizer", text |-> text, value |-> len \div 4]
    /\ nested' = (IF pc \in CallbackPcs THEN "estimateTokenCount" ELSE nested)
    /\ UNCHANGED <<globals, record, g_params, backend, pc, locals, events, ret,
                   fed, history, g_mutex>>

(***************************************************************************)
(* Steps shared by the three generation handlers (the source repeats them). *)
(***************************************************************************)
\* the whole remainder is submitted as one batch
ChunkSize_Whole(w) == Len(tokens) - tokens_processed

\* the next chunk of a chunked-ingestion loop of width w
ChunkSize(w) == Min(w, Len(tokens) - tokens_processed)
Chunk(w) == SubSeq(tokens, tokens_processed + 1, tokens_processed + ChunkSize(w))

Fed(site, batch) == Append(fed, [site |-> site, pos |-> Len(kv), toks |-> batch])

Event(kind, text, msg) == [kind |-> kind, text |-> text, msg |-> msg]

\* while (tokens_processed < n) { llama_decode(chunk) ... }: one iteration
\* whose llama_decode succeeds; the loop goes on at `here` or leaves to `after`
IngestChunkOk(w, site, here, after) ==
    /\ CanDecode(kv, Chunk(w))
    /\ kv' = DecodeInto(kv, Chunk(w))
    /\ fed' = Fed(site, Chunk(w))
    /\ tokens_processed' = tokens_processed + ChunkSize(w)
    /\ pc' = IF tokens_processed + ChunkSize(w) < Len(tokens) THEN here ELSE after
    /\ UNCHANGED <<ret, events>>

\* a failing chunk takes the chunks ingested before it out of the memory
IngestChunkFails_RollsBack(w, site) ==
    /\ fed' = Append(fed, [site |-> site, pos |-> -1, toks |-> Chunk(w)])
    /\ kv' = SubSeq(kv, 1, Len(kv) - tokens_processed)
    /\ UNCHANGED tokens_processed

\* one iteration whose llama_decode fails: nothing of the chunk stays resident
IngestChunkFails(w, site) ==
    /\ fed' = Append(fed, [site |-> site, pos |-> -1, toks |-> Chunk(w)])
    /\ UNCHANGED <<kv, tokens_processed>>

\* the blocking handlers append the piece to the response
AppendPiece(piece) ==
    /\ response' = (IF Len(piece) > 0 THEN response \o piece ELSE response)
    /\ UNCHANGED events

\* a fragment whose sanitized text is empty is not handed to onToken
EmitToken_SkipsEmpty(piece) ==
    /\ events' = (IF Len(NewStringUTF(Sanitize(piece))) > 0
                  THEN Append(events, Event("onToken", NewStringUTF(Sanitize(piece)), ""))
                  ELSE events)
    /\ UNCHANGED response

\* lines 895-932: the streaming handler sanitizes the fragment and hands it
\* to onToken at once
EmitToken(piece) ==
    /\ events' = (IF Len(piece) > 0
                  THEN Append(events, Event("onToken", NewStringUTF(Sanitize(piece)), ""))
                  ELSE events)
    /\ UNCHANGED response

\* line 923: CallVoidMethod(callback, onTokenMethod, ...) runs the callback
\* inside the handler; the callback returns and the loop goes on, or the
\* callback calls into the session first
AfterPiece(decodePc) ==
    IF events' # events THEN {decodePc, "str_on_token"} ELSE {decodePc}

\* the end marker's piece is appended or delivered before the loop is left
SampleStep_EmitsEos(decodePc, finishPc, streaming) ==
    IF i < args.maxTokens
    THEN \E tok \in Context.vocab :
            /\ new_token_id' = tok
            /\ sampled' = Append(sampled, tok)
            /\ IF streaming THEN EmitToken(TokenToPiece(tok))
               ELSE AppendPiece(TokenToPiece(tok))
            /\ pc' \in (IF IsEog(tok) THEN {finishPc} ELSE AfterPiece(decodePc))
    ELSE pc' = finishPc /\ UNCHANGED <<new_token_id, response, events, sampled>>

\* the loop condition written i <= maxTokens
SampleStep_OffByOne(decodePc, finishPc, streaming) ==
    IF i <= args.maxTokens
    THEN \E tok \in Context.vocab :
            /\ new_token_id' = tok
            /\ sampled' = Append(sampled, tok)
            /\ IF IsEog(tok)
               THEN pc' = finishPc /\ UNCHANGED <<response, events>>
               ELSE /\ IF streaming THEN EmitToken(TokenToPiece(tok))
                       ELSE AppendPiece(TokenToPiece(tok))
                    /\ pc' \in AfterPiece(decodePc)
    ELSE pc' = finishPc /\ UNCHANGED <<new_token_id, response, events, sampled>>

\* for (i < maxTokens) { sample; if eog break; token_to_piece; append or emit }
SampleStep(decodePc, finishPc, streaming) ==
    IF i < args.maxTokens
    THEN \E tok \in Context.vocab :
            /\ new_token_id' = tok
            /\ sampled' = Append(sampled, tok)
            /\ IF IsEog(tok)
               THEN pc' = finishPc /\ UNCHANGED <<response, events>>
               ELSE /\ IF streaming THEN EmitToken(TokenToPiece(tok))
                       ELSE AppendPiece(TokenToPiece(tok))
                    /\ pc' \in AfterPiece(decodePc)
    ELSE pc' = finishPc /\ UNCHANGED <<new_token_id, response, events, sampled>>

\* llama_decode(next_batch) of the sampled token; break on failure
DecodeStep(samplePc, finishPc) ==
    \E ok \in BOOLEAN :
       IF ok /\ CanDecode(kv, <<new_token_id>>)
       THEN /\ kv' = DecodeInto(kv, <<new_token_id>>)
            /\ fed' = Fed("gen", <<new_token_id>>)
            /\ i' = i + 1
            /\ pc' = samplePc
       ELSE /\ fed' = Append(fed, [site |-> "gen", pos |-> -1, toks |-> <<new_token_id>>])
            /\ UNCHANGED <<kv, i>>
            /\ pc' = finishPc

StartCall(a) ==
    /\ pc = "idle"
    /\ args' = a
    /\ events' = <<>> /\ fed' = <<>>
    /\ sampled' = <<>> /\ kv0' = kv /\ record0' = record
    /\ UNCHANGED <<cache_hit, tokens, tokens_processed, i, new_token_id, response>>

(***************************************************************************)
(* nativeGenerate                                                          *)
(***************************************************************************)
\* lines 226-237
nativeGenerate_Enter ==
    /\ \E prompt \in Prompts, n \in MaxTokensArgs, readable \in BOOLEAN :
          /\ StartCall([NoArgs EXCEPT !.op = "generate", !.text = prompt,
                                      !.readable = readable, !.maxTokens = n])
          /\ IF NotReady THEN Returns(ErrRet("Error: Model not loaded"))
             ELSE IF ~readable THEN Returns(ErrRet("Error: Invalid prompt"))
             ELSE pc' = "gen_tokenize" /\ ret' = NoRet
    /\ unloadsInARow' = 0
    /\ UNCHANGED <<globals, record, g_params, backend, callHist>>

\* lines 247-261
GenTokenize ==
    /\ pc = "gen_tokenize"
    /\ \E outcome \in {"ok", "count_failed", "fill_failed"} :
          LET toks == Tokenize(args.text, TRUE) IN
          IF outcome = "ok" /\ Len(toks) > 0
          THEN /\ tokens' = toks /\ tokens_processed' = 0
               /\ pc' = "gen_ingest" /\ ret' = ret
          ELSE /\ UNCHANGED <<tokens, tokens_processed>>
               /\ Returns(ErrRet("Error: Tokenization failed"))
    /\ UNCHANGED <<globals, record, g_params, backend, args, cache_hit, i,
                   new_token_id, response, events, fed, history>>

\* lines 270-284
GenIngestChunk ==
    /\ pc = "gen_ingest"
    /\ \/ IngestChunkOk(CHUNK_SIZE, "prompt", "gen_ingest", "gen_sample")
       \/ /\ IngestChunkFails(CHUNK_SIZE, "prompt")
          /\ Returns(ErrRet("Error: Prompt processing failed"))
          /\ UNCHANGED events
    /\ UNCHANGED <<globals, record, g_params, liveModels, liveContexts, args,
                   cache_hit, tokens, i, new_token_id, response, history>>

\* lines 310-337
GenSample ==
    /\ pc = "gen_sample"
    /\ SampleStep("gen_decode", "gen_finish", FALSE)
    /\ UNCHANGED <<globals, record, g_params, backend, args, cache_hit, tokens,
                   tokens_processed, i, ret, fed, callHist, unloadsInARow,
                   kv0, record0>>

\* lines 340-348
GenDecode ==
    /\ pc = "gen_decode"
    /\ DecodeStep("gen_sample", "gen_finish")
    /\ UNCHANGED <<globals, record, g_params, liveModels, liveContexts, args,
                   cache_hit, tokens, tokens_processed, new_token_id, response,
                   events, ret, history>>

\* a turn whose last llama_decode failed returns an error text
GenFinish_ErrorOnFailure ==
    /\ pc = "gen_finish"
    /\ IF Len(fed) > 0 /\ fed[Len(fed)].pos = -1
       THEN Returns(ErrRet("Error: Generation failed"))
       ELSE Returns(TextRet(NewStringUTF(Sanitize(response))))
    /\ UNCHANGED <<globals, record, g_params, backend, locals, events, fed, history>>

\* lines 364-395
GenFinish ==
    /\ pc = "gen_finish"
    /\ Returns(TextRet(NewStringUTF(Sanitize(response))))
    /\ UNCHANGED <<globals, record, g_params, backend, locals, events, fed, history>>

(***************************************************************************)
(* nativeGenerateWithCache                                                 *)
(***************************************************************************)
\* the cached text is compared as a prefix of the incoming text
CacheHit_Prefix(current_sys_prompt) ==
    /\ Len(current_sys_prompt) >= Len(g_cached_system_prompt)
    /\ SubSeq(current_sys_prompt, 1, Len(g_cached_system_prompt)) = g_cached_system_prompt
    /\ g_cached_system_length > 0

\* line 459
CacheHit(current_sys_prompt) ==
    current_sys_prompt = g_cached_system_prompt /\ g_cached_system_length > 0

\* the strings are not checked for null
nativeGenerateWithCache_Enter_NoReadCheck ==
    /\ \E sys \in SysPrompts, user \in UserTexts, n \in MaxTokensArgs,
          readable \in BOOLEAN :
          /\ StartCall([NoArgs EXCEPT !.op = "cached", !.sys = sys, !.text = user,
                                      !.readable = readable, !.maxTokens = n])
          /\ IF NotReady THEN Returns(ErrRet("Error: Model not loaded"))
             ELSE pc' = "gwc_decide" /\ ret' = NoRet
    /\ unloadsInARow' = 0
    /\ UNCHANGED <<globals, record, g_params, backend, callHist>>

\* lines 434-449
nativeGenerateWithCache_Enter ==
    /\ \E sys \in SysPrompts, user \in UserTexts, n \in MaxTokensArgs,
          readable \in BOOLEAN :
          /\ StartCall([NoArgs EXCEPT !.op = "cached", !.sys = sys, !.text = user,
                                      !.readable = readable, !.maxTokens = n])
          /\ IF NotReady THEN Returns(ErrRet("Error: Model not loaded"))
             ELSE IF ~readable THEN Returns(ErrRet("Error: Invalid prompt"))
             ELSE pc' = "gwc_decide" /\ ret' = NoRet
    /\ unloadsInARow' = 0
    /\ UNCHANGED <<globals, record, g_params, backend, callHist>>

\* lines 457-459, 476-478
CacheDecide ==
    /\ pc = "gwc_decide"
    /\ cache_hit' = CacheHit(args.sys)
    /\ pc' = IF CacheHit(args.sys) THEN "gwc_hit" ELSE "gwc_miss"
    /\ warm' = IF warm = args.sys THEN warm ELSE NoWarm
    /\ UNCHANGED <<globals, record, g_params, backend, args, tokens,
                   tokens_processed, i, new_token_id, response, events, ret, fed,
                   params0, freshLoad, sinceUnload, loaded0, unloadsInARow,
                   turnHist>>

\* lines 478-496
CacheHitTrim ==
    /\ pc = "gwc_hit"
    /\ kv' = IF SeqPosMax(kv) >= g_cached_system_length
             THEN SeqRmFrom(kv, g_cached_system_length)
             ELSE kv
    /\ pc' = "gwc_user_tokenize"
    /\ freshLoad' = FALSE
    /\ UNCHANGED <<globals, record, g_params, liveModels, liveContexts, locals,
                   events, ret, fed, params0, warm, sinceUnload, loaded0,
                   unloadsInARow, turnHist>>

\* the Decode State is not cleared on a Miss
CacheMissClear_KeepsMemory ==
    /\ pc = "gwc_miss"
    /\ pc' = "gwc_sys_tokenize"
    /\ freshLoad' = FALSE
    /\ UNCHANGED <<globals, record, g_params, backend, locals,
                   events, ret, fed, params0, warm, sinceUnload, loaded0,
                   unloadsInARow, turnHist>>

\* lines 498-504
CacheMissClear ==
    /\ pc = "gwc_miss"
    /\ kv' = <<>>
    /\ pc' = "gwc_sys_tokenize"
    /\ freshLoad' = FALSE
    /\ UNCHANGED <<globals, record, g_params, liveModels, liveContexts, locals,
                   events, ret, fed, params0, warm, sinceUnload, loaded0,
                   unloadsInARow, turnHist>>

\* lines 508-528
CacheSysTokenize ==
    /\ pc = "gwc_sys_tokenize"
    /\ \E outcome \in {"ok", "count_failed", "fill_failed"} :
          LET toks == Tokenize(FormatSys(args.sys), TRUE) IN
          IF outcome = "ok" /\ Len(toks) > 0
          THEN /\ tokens' = toks /\ tokens_processed' = 0
               /\ pc' = "gwc_sys_ingest" /\ ret' = ret
          ELSE /\ UNCHANGED <<tokens, tokens_processed>>
               /\ Returns(ErrRet("Error: System prompt tokenization failed"))
    /\ UNCHANGED <<globals, record, g_params, backend, args, cache_hit, i,
                   new_token_id, response, events, fed, history>>

\* lines 534-570
CacheSysIngestChunk ==
    /\ pc = "gwc_sys_ingest"
    /\ \/ IngestChunkOk(CHUNK_SIZE, "sys", "gwc_sys_ingest", "gwc_store")
       \/ /\ IngestChunkFails(CHUNK_SIZE, "sys")
          /\ Returns(ErrRet("Error: System prompt processing failed"))
          /\ UNCHANGED events
    /\ UNCHANGED <<globals, record, g_params, liveModels, liveContexts, args,
                   cache_hit, tokens, i, new_token_id, response, history>>

\* the token count of the record is not stored
CacheStoreRecord_NoLength ==
    /\ pc = "gwc_store"
    /\ g_cached_system_tokens' = tokens
    /\ g_cached_system_prompt' = args.sys
    /\ warm' = args.sys
    /\ pc' = "gwc_user_tokenize"
    /\ UNCHANGED <<globals, g_params, g_cached_system_length, backend, locals,
                   events, ret, fed, params0, freshLoad, sinceUnload, loaded0,
                   unloadsInARow, turnHist>>

\* the text of the record is not replaced
CacheStoreRecord_KeepsText ==
    /\ pc = "gwc_store"
    /\ g_cached_system_tokens' = tokens
    /\ g_cached_system_length' = Len(tokens)
    /\ warm' = args.sys
    /\ pc' = "gwc_user_tokenize"
    /\ UNCHANGED <<globals, g_params, g_cached_system_prompt, backend, locals,
                   events, ret, fed, params0, freshLoad, sinceUnload, loaded0,
                   unloadsInARow, turnHist>>

\* lines 579-584
CacheStoreRecord ==
    /\ pc = "gwc_store"
    /\ g_cached_system_tokens' = tokens
    /\ g_cached_system_length' = Len(tokens)
    /\ g_cached_system_prompt' = args.sys
    /\ warm' = args.sys
    /\ pc' = "gwc_user_tokenize"
    /\ UNCHANGED <<globals, g_params, backend, locals, events, ret, fed,
                   params0, freshLoad, sinceUnload, loaded0, unloadsInARow,
                   turnHist>>

\* lines 589-610
CacheUserTokenize ==
    /\ pc = "gwc_user_tokenize"
    /\ \E outcome \in {"ok", "count_failed", "fill_failed"} :
          LET toks == Tokenize(FormatUser(args.text), FALSE) IN
          IF outcome = "ok" /\ Len(toks) > 0
          THEN /\ tokens' = toks /\ tokens_processed' = 0
               /\ pc' = "gwc_user_ingest" /\ ret' = ret
          ELSE /\ UNCHANGED <<tokens, tokens_processed>>
               /\ Returns(ErrRet("Error: User message tokenization failed"))
    /\ UNCHANGED <<globals, record, g_params, backend, args, cache_hit, i,
                   new_token_id, response, events, fed, history>>

\* a failed chunk of the user turn is logged and the handler goes on to sample
CacheUserIngestChunk_GoesOn ==
    /\ pc = "gwc_user_ingest"
    /\ \/ IngestChunkOk(USER_CHUNK_SIZE, "user", "gwc_user_ingest", "gwc_sample")
       \/ /\ IngestChunkFails(USER_CHUNK_SIZE, "user")
          /\ pc' = "gwc_sample"
          /\ UNCHANGED <<ret, events>>
    /\ UNCHANGED <<globals, record, g_params, liveModels, liveContexts, args,
                   cache_hit, tokens, i, new_token_id, response, history>>

\* lines 616-631
CacheUserIngestChunk ==
    /\ pc = "gwc_user_ingest"
    /\ \/ IngestChunkOk(USER_CHUNK_SIZE, "user", "gwc_user_ingest", "gwc_sample")
       \/ /\ IngestChunkFails(USER_CHUNK_SIZE, "user")
          /\ Returns(ErrRet("Error: User message processing failed"))
          /\ UNCHANGED events
    /\ UNCHANGED <<globals, record, g_params, liveModels, liveContexts, args,
                   cache_hit, tokens, i, new_token_id, response, history>>

\* lines 654-672
CacheSample ==
    /\ pc = "gwc_sample"
    /\ SampleStep("gwc_decode", "gwc_finish", FALSE)
    /\ UNCHANGED <<globals, record, g_params, backend, args, cache_hit, tokens,
                   tokens_processed, i, ret, fed, callHist, unloadsInARow,
                   kv0, record0>>

\* lines 674-680
CacheDecode ==
    /\ pc = "gwc_decode"
    /\ DecodeStep("gwc_sample", "gwc_finish")
    /\ UNCHANGED <<globals, record, g_params, liveModels, liveContexts, args,
                   cache_hit, tokens, tokens_processed, new_token_id, response,
                   events, ret, history>>

\* lines 698-740
CacheFinish ==
    /\ pc = "gwc_finish"
    /\ Returns(TextRet(NewStringUTF(Sanitize(response))))
    /\ UNCHANGED <<globals, record, g_params, backend, locals, events, fed, history>>

(***************************************************************************)
(* nativeGenerateStreaming                                                 *)
(***************************************************************************)
\* onComplete or onError has been called: the callback returns and the
\* handler returns, or the callback calls into the session first
AfterTerminal ==
    \/ Returns(VoidRet)
    \/ pc' = "str_on_terminal" /\ ret' = NoRet

\* CallVoidMethod(callback, onErrorMethod, NewStringUTF(msg)); return
DeliverError(msg) ==
    /\ events' = Append(events, Event("onError", <<>>, msg))
    /\ AfterTerminal

\* lines 775-807
nativeGenerateStreaming_Enter ==
    /\ \E prompt \in Prompts, n \in MaxTokensArgs, cb \in Callbacks,
          readable \in BOOLEAN :
          /\ pc = "idle"
          /\ args' = [NoArgs EXCEPT !.op = "stream", !.text = prompt,
                                    !.readable = readable, !.maxTokens = n,
                                    !.cb = cb]
          /\ fed' = <<>>
          /\ sampled' = <<>> /\ kv0' = kv /\ record0' = record
          /\ IF NotReady
             THEN IF "onError" \in cb
                  THEN /\ events' = <<Event("onError", <<>>, "Model not loaded")>>
                       /\ AfterTerminal
                  \* CallVoidMethod with a null method id is undefined: the
                  \* runtime aborts, or the call does nothing
                  ELSE /\ events' = <<>>
                       /\ \/ pc' = "crashed" /\ ret' = NoRet
                          \/ Returns(VoidRet)
             ELSE IF cb # AllMethods
                  THEN events' = <<>> /\ Returns(VoidRet)
             ELSE IF ~readable
                  THEN /\ events' = <<Event("onError", <<>>, "Invalid prompt")>>
                       /\ AfterTerminal
             ELSE events' = <<>> /\ pc' = "str_tokenize" /\ ret' = NoRet
    /\ unloadsInARow' = 0
    /\ UNCHANGED <<globals, record, g_params, backend, cache_hit, tokens,
                   tokens_processed, i, new_token_id, response, callHist>>

\* lines 814-833
StreamTokenize ==
    /\ pc = "str_tokenize"
    /\ \E outcome \in {"ok", "count_failed", "fill_failed"} :
          LET toks == Tokenize(args.text, TRUE) IN
          IF outcome = "ok" /\ Len(toks) > 0
          THEN /\ tokens' = toks /\ tokens_processed' = 0
               /\ pc' = "str_ingest" /\ UNCHANGED <<ret, events>>
          ELSE /\ UNCHANGED <<tokens, tokens_processed>>
               /\ DeliverError("Tokenization failed")
    /\ UNCHANGED <<globals, record, g_params, backend, args, cache_hit, i,
                   new_token_id, response, fed, history>>

\* lines 841-858
StreamIngestChunk ==
    /\ pc = "str_ingest"
    /\ \/ IngestChunkOk(CHUNK_SIZE, "prompt", "str_ingest", "str_sample")
       \/ /\ IngestChunkFails(CHUNK_SIZE, "prompt")
          /\ DeliverError("Prompt processing failed")
    /\ UNCHANGED <<globals, record, g_params, liveModels, liveContexts, args,
                   cache_hit, tokens, i, new_token_id, response, history>>

\* lines 881-932
StreamSample ==
    /\ pc = "str_sample"
    /\ SampleStep("str_decode", "str_finish", TRUE)
    /\ UNCHANGED <<globals, record, g_params, backend, args, cache_hit, tokens,
                   tokens_processed, i, ret, fed, callHist, unloadsInARow,
                   kv0, record0>>

\* lines 935-942
StreamDecode ==
    /\ pc = "str_decode"
    /\ DecodeStep("str_sample", "str_finish")
    /\ UNCHANGED <<globals, record, g_params, liveModels, liveContexts, args,
                   cache_hit, tokens, tokens_processed, new_token_id, response,
                   events, ret, history>>

\* the loop's exit returns without the completion callback
StreamFinish_NoComplete ==
    /\ pc = "str_finish"
    /\ Returns(VoidRet)
    /\ UNCHANGED <<globals, record, g_params, backend, locals, events, fed, history>>

\* lines 945-959
StreamFinish ==
    /\ pc = "str_finish"
    /\ events' = Append(events, Event("onComplete", <<>>, ""))
    /\ AfterTerminal
    /\ UNCHANGED <<globals, record, g_params, backend, locals, fed, history>>

\* the callback has made its nativeGetTokenCount call, which takes no lock,
\* and returns: the loop goes on to llama_decode (line 934), or the handler
\* returns (lines 855, 959)
CallbackReturns ==
    /\ pc \in CallbackPcs
    /\ est.path # "none"
    /\ IF pc = "str_on_token"
       THEN pc' = "str_decode" /\ UNCHANGED ret
       ELSE Returns(VoidRet)
    /\ UNCHANGED <<globals, record, g_params, backend, locals, events, fed, history>>

\* the callback calls a locking operation on the thread that runs the
\* streaming handler: the nested handler's first statement locks g_mutex
\* (lines 59, 226, 400, 434, 775).  Locking a std::mutex its own thread
\* holds is undefined: pthread_mutex_lock blocks for ever, or lock() throws
\* std::system_error through the JNI frame and the process ends.
CallbackLocks ==
    /\ pc \in CallbackPcs
    /\ \E call \in LockingCalls :
          /\ nested' = call
          /\ IF g_mutex = "held"
             THEN pc' \in {"deadlocked", "crashed"}
             ELSE pc' = "reentered"
    /\ est' = NoEst
    /\ UNCHANGED <<globals, record, g_params, backend, locals, events, ret, fed,
                   history, g_mutex>>

\* the caller takes the result of a finished call
Return ==
    /\ pc = "done"
    /\ pc' = "idle"
    /\ args' = NoArgs /\ cache_hit' = FALSE /\ tokens' = <<>>
    /\ tokens_processed' = 0 /\ i' = 0 /\ new_token_id' = NULL /\ response' = <<>>
    /\ events' = <<>> /\ ret' = NoRet /\ fed' = <<>>
    /\ params0' = g_params /\ loaded0' = FALSE
    /\ sampled' = <<>> /\ kv0' = <<>> /\ record0' = NoRecord
    /\ UNCHANGED <<globals, record, g_params, backend, freshLoad, warm, sinceUnload,
                   unloadsInARow>>

Op ==
    \/ nativeLoadModel_Enter
    \/ LoadFreeExistingContext
    \/ LoadFreeExistingModel
    \/ LoadGetPath
    \/ LoadOpenFile
    \/ LoadModelFromFile
    \/ LoadGetVocab
    \/ LoadInitContext
    \/ nativeFreeModel
    \/ nativeGenerate_Enter
    \/ GenTokenize
    \/ GenIngestChunk
    \/ GenSample
    \/ GenDecode
    \/ GenFinish
    \/ nativeGenerateWithCache_Enter
    \/ CacheDecide
    \/ CacheHitTrim
    \/ CacheMissClear
    \/ CacheSysTokenize
    \/ CacheSysIngestChunk
    \/ CacheStoreRecord
    \/ CacheUserTokenize
    \/ CacheUserIngestChunk
    \/ CacheSample
    \/ CacheDecode
    \/ CacheFinish
    \/ nativeGenerateStreaming_Enter
    \/ StreamTokenize
    \/ StreamIngestChunk
    \/ StreamSample
    \/ StreamDecode
    \/ StreamFinish
    \/ CallbackReturns
    \/ Return

Next ==
    \/ Op /\ est' = NoEst /\ lock_guard /\ NestedKept
    \/ nativeGetTokenCount
    \/ CallbackLocks

Spec == Init /\ [][Next]_vars

(***************************************************************************)
(* The sanitizer on its own: nativeGenerate has left its sampling loop     *)
(* after drawing any tokens of a vocabulary that has byte tokens (a text    *)
(* byte, zero, a continuation byte, the lead bytes of the 2-, 3- and 4-byte *)
(* forms, a byte no form starts with) and the multi-byte pieces.            *)
(***************************************************************************)
\* tokens the loop drew before it ended
MaxPieces == 3

CodecVocab == {0, 65, 169, 195, 226, 240, 255} \cup (300..306)

RECURSIVE TokenSeqs(_)
TokenSeqs(n) ==
    IF n = 0 THEN {<<>>}
    ELSE LET shorter == TokenSeqs(n - 1) IN
         shorter \cup {Append(t, tok) : t \in shorter, tok \in CodecVocab}

\* the response the loop builds from the tokens it drew
RECURSIVE Pieces(_)
Pieces(toks) ==
    IF toks = <<>> THEN <<>> ELSE TokenToPiece(Head(toks)) \o Pieces(Tail(toks))

LoadedParams ==
    LET a == CHOOSE a \in LoadArgs : TRUE IN
    [DefaultParams EXCEPT !.nThreads = a.nThreads, !.ctxSize = a.ctxSize,
                          !.temperature = a.temperature, !.topK = a.topK,
                          !.topP = a.topP, !.minP = a.minP]

CodecInit ==
    \E toks \in TokenSeqs(MaxPieces), prompt \in Prompts :
       /\ g_model = 1 /\ g_context = 1 /\ g_vocab = 1
       /\ g_initialized = TRUE
       /\ g_cached_system_tokens = <<>>
       /\ g_cached_system_length = 0
       /\ g_cached_system_prompt = <<>>
       /\ g_params = LoadedParams
       /\ liveModels = {1}
       /\ liveContexts = {[id |-> 1, model |-> 1,
                           n_ctx |-> Max(LoadedParams.ctxSize, CtxFloor),
                           cells |-> MaxKv, vocab |-> CodecVocab \cup {TokEos}]}
       /\ kv = Tokenize(prompt, TRUE) \o toks
       /\ g_mutex = "held" /\ nested = "none"
       /\ pc = "gen_finish"
       /\ args = [NoArgs EXCEPT !.op = "generate", !.text = prompt,
                                !.maxTokens = Len(toks)]
       /\ cache_hit = FALSE
       /\ tokens = Tokenize(prompt, TRUE)
       /\ tokens_processed = Len(Tokenize(prompt, TRUE))
       /\ i = Len(toks)
       /\ new_token_id = (IF toks = <<>> THEN NULL ELSE toks[Len(toks)])
       /\ response = Pieces(toks)
       /\ events = <<>> /\ ret = NoRet /\ est = NoEst
       /\ fed = <<[site |-> "prompt", pos |-> 0, toks |-> Tokenize(prompt, TRUE)]>>
                 \o [k \in 1..Len(toks) |->
                       [site |-> "gen", pos |-> Len(Tokenize(prompt, TRUE)) + k - 1,
                        toks |-> <<toks[k]>>]]
       /\ params0 = LoadedParams /\ freshLoad = TRUE /\ warm = NoWarm
       /\ sinceUnload = FALSE /\ loaded0 = FALSE /\ unloadsInARow = 0
       /\ sampled = toks /\ kv0 = <<>> /\ record0 = NoRecord

CodecNext == GenFinish /\ est' = NoEst /\ lock_guard /\ NestedKept

CodecSpec == CodecInit /\ [][CodecNext]_vars

(***************************************************************************)
(* The chunked ingestion loops on long inputs.  A second specification     *)
(* starts each generation handler, on a loaded session whose context has   *)
(* the n_ctx positions nativeLoadModel asked for, with texts whose token   *)
(* counts lie around the multiples of CHUNK_SIZE, and runs its             *)
(* tokenization and ingestion steps.                                       *)
(***************************************************************************)
\* full chunks in the longest text
MaxChunks == 2

\* a text of n bytes "a"
LongText(n) == [k \in 1..n |-> 97]

\* the empty text, and the texts up to three bytes short of each multiple
ChunkTexts ==
    {LongText(0)}
    \cup {LongText(c * CHUNK_SIZE - d) : c \in 1..MaxChunks, d \in 0..3}

\* the globals and the backend after one successful nativeLoadModel of a
\* model with the given vocabulary, in a context of the given size
LoadedGlobals(cells, vocab) ==
    /\ g_model = 1 /\ g_context = 1 /\ g_vocab = 1
    /\ g_initialized = TRUE
    /\ g_params = LoadedParams
    /\ liveModels = {1}
    /\ liveContexts = {[id |-> 1, model |-> 1,
                        n_ctx |-> Max(LoadedParams.ctxSize, CtxFloor),
                        cells |-> cells, vocab |-> vocab]}
    /\ est = NoEst
    /\ g_mutex = "held" /\ nested = "none"
    /\ params0 = LoadedParams /\ freshLoad = TRUE
    /\ sinceUnload = FALSE /\ loaded0 = FALSE /\ unloadsInARow = 0

\* that session before its first call
LoadedSession ==
    /\ LoadedGlobals(Max(LoadedParams.ctxSize, CtxFloor), GenVocab)
    /\ g_cached_system_tokens = <<>>
    /\ g_cached_system_length = 0
    /\ g_cached_system_prompt = <<>>
    /\ kv = <<>>
    /\ cache_hit = FALSE /\ tokens = <<>> /\ tokens_processed = 0
    /\ i = 0 /\ new_token_id = NULL /\ response = <<>>
    /\ events = <<>> /\ ret = NoRet /\ fed = <<>>
    /\ warm = NoWarm
    /\ sampled = <<>> /\ kv0 = <<>> /\ record0 = NoRecord

ChunkInit ==
    /\ LoadedSession
    /\ \E sys \in ChunkTexts, text \in ChunkTexts :
          \/ /\ pc = "gen_tokenize"
             /\ sys = <<>>
             /\ args = [NoArgs EXCEPT !.op = "generate", !.text = text]
          \/ /\ pc = "gwc_decide"
             /\ args = [NoArgs EXCEPT !.op = "cached", !.sys = sys,
                                      !.text = text]
          \/ /\ pc = "str_tokenize"
             /\ sys = <<>>
             /\ args = [NoArgs EXCEPT !.op = "stream", !.text = text,
                                      !.cb = AllMethods]

ChunkNext ==
    \/ /\ \/ GenTokenize
          \/ GenIngestChunk
          \/ CacheDecide
          \/ CacheMissClear
          \/ CacheSysTokenize
          \/ CacheSysIngestChunk
          \/ CacheStoreRecord
          \/ CacheUserTokenize
          \/ CacheUserIngestChunk
          \/ StreamTokenize
          \/ StreamIngestChunk
          \/ CallbackReturns
       /\ est' = NoEst /\ lock_guard /\ NestedKept
    \/ nativeGetTokenCount
    \/ CallbackLocks

ChunkSpec == ChunkInit /\ [][ChunkNext]_vars

(***************************************************************************)
(* The generation loops on the codec's vocabulary.  A third specification  *)
(* starts each generation handler where its prompt has just been ingested  *)
(* (nativeGenerateWithCache after a Miss), on a session whose model has    *)
(* the vocabulary of the codec cases, and runs the sampling loop and the   *)
(* return.                                                                 *)
(***************************************************************************)
LoopVocab == CodecVocab \cup {TokEos}

\* the locals and the memory of a handler whose last ingestion loop has ended
AtLoopEntry(op, sys, text) ==
    LET sysToks == Tokenize(FormatSys(sys), TRUE)
        userToks == Tokenize(FormatUser(text), FALSE)
        promptToks == Tokenize(text, TRUE)
    IN  IF op = "cached"
        THEN /\ pc = "gwc_sample"
             /\ g_cached_system_tokens = sysToks
             /\ g_cached_system_length = Len(sysToks)
             /\ g_cached_system_prompt = sys
             /\ warm = sys
             /\ kv = sysToks \o userToks
             /\ tokens = userToks /\ tokens_processed = Len(userToks)
             /\ fed = <<[site |-> "sys", pos |-> 0, toks |-> sysToks],
                        [site |-> "user", pos |-> Len(sysToks),
                         toks |-> userToks]>>
        ELSE /\ pc = (IF op = "generate" THEN "gen_sample" ELSE "str_sample")
             /\ g_cached_system_tokens = <<>>
             /\ g_cached_system_length = 0
             /\ g_cached_system_prompt = <<>>
             /\ warm = NoWarm
             /\ kv = promptToks
             /\ tokens = promptToks /\ tokens_processed = Len(promptToks)
             /\ fed = <<[site |-> "prompt", pos |-> 0, toks |-> promptToks]>>

LoopInit ==
    /\ LoadedGlobals(MaxKv, LoopVocab)
    /\ \E op \in {"generate", "cached", "stream"}, text \in Prompts :
          /\ args = [NoArgs EXCEPT !.op = op, !.text = text,
                                   !.maxTokens = MaxPieces,
                                   !.cb = (IF op = "stream" THEN AllMethods
                                           ELSE {})]
          /\ AtLoopEntry(op, <<>>, text)
    /\ cache_hit = FALSE /\ i = 0 /\ new_token_id = NULL /\ response = <<>>
    /\ events = <<>> /\ ret = NoRet
    /\ sampled = <<>> /\ kv0 = <<>> /\ record0 = NoRecord

\* the callbacks of these turns return without a call into the session
LoopNext ==
    /\ \/ GenSample
       \/ GenDecode
       \/ GenFinish
       \/ CacheSample
       \/ CacheDecode
       \/ CacheFinish
       \/ StreamSample
       \/ StreamDecode
       \/ StreamFinish
    /\ pc' \notin CallbackPcs
    /\ est' = NoEst /\ lock_guard /\ NestedKept

LoopSpec == LoopInit /\ [][LoopNext]_vars

(***************************************************************************)
(* Properties.                                                             *)
(***************************************************************************)
AfterCall == pc \in {"idle", "done"}

IsTerminal(e) == e.kind \in {"onComplete", "onError"}
Terminals(ev) == {k \in 1..Len(ev) : IsTerminal(ev[k])}

\* the handler has returned, or it has delivered onComplete or onError and is
\* still inside that callback, which called into the session
Ended ==
    \/ pc = "done"
    \/ /\ pc \in {"str_on_terminal", "deadlocked", "crashed"}
       /\ events # <<>> /\ IsTerminal(events[Len(events)])

\* at most one completion-or-error, nothing after it, and only as the call ends
TerminalIsLast ==
    /\ Cardinality(Terminals(events)) <= 1
    /\ \A k \in Terminals(events) : k = Len(events) /\ Ended

CanDeliver == args.cb = AllMethods \/ (NotReady /\ "onError" \in args.cb)

PrefixResident ==
    /\ Len(kv) >= g_cached_system_length
    /\ SubSeq(kv, 1, g_cached_system_length) = g_cached_system_tokens

\* C2 as stated: between calls, whenever a model is loaded and the record
\* holds N > 0 tokens, the decode state holds exactly the recorded prefix at
\* the positions 0..N-1.
C2_RecordedPrefixResident ==
    (AfterCall /\ g_initialized /\ g_cached_system_length > 0) => PrefixResident

\* C3 as stated: on a Hit with N cached tokens the decode state holds exactly
\* N positions right after the truncation step, and the user turn goes in at
\* position N.
C3_HitLeavesExactlyPrefix ==
    (args.op = "cached" /\ cache_hit) =>
       /\ pc = "gwc_user_tokenize" => Len(kv) = g_cached_system_length
       /\ \A k \in 1..Len(fed) :
             (fed[k].site = "user" /\ \A j \in 1..(k-1) : fed[j].site # "user")
                => fed[k].pos \in {-1, g_cached_system_length}

\* byte-for-byte equality of two texts
SameBytes(a, b) == Len(a) = Len(b) /\ \A k \in 1..Len(a) : a[k] = b[k]

\* C4: the decision is Hit exactly when the incoming prefix equals the
\* recorded text byte for byte and the recorded count is positive.
C4_HitIffSameTextAndCount ==
    pc \in {"gwc_hit", "gwc_miss"} =>
       /\ cache_hit <=> (SameBytes(args.sys, g_cached_system_prompt)
                           /\ g_cached_system_length > 0)
       /\ cache_hit <=> pc = "gwc_hit"

\* "" is recorded and " " comes in: a Miss
C4_Witness ==
    /\ pc = "gwc_miss" /\ ~cache_hit
    /\ args.sys = <<32>>
    /\ g_cached_system_prompt = <<>> /\ g_cached_system_length > 0

\* C5 as stated: the first decision after a successful load is a Miss.
C5_FirstDecisionAfterLoadIsMiss ==
    (pc \in {"gwc_hit", "gwc_miss"} /\ freshLoad) => ~cache_hit

\* C6: once a Miss turn has recorded prefix P, the next decision for the same
\* P (no unload, no decision for another prefix since) is a Hit, and a Hit
\* turn passes no prefix chunk to llama_decode: only user and generated tokens.
C6_WarmPrefixHitsAndIsNotReingested ==
    /\ (pc \in {"gwc_hit", "gwc_miss"} /\ warm = args.sys) => cache_hit
    /\ (args.op = "cached" /\ cache_hit) =>
          \A k \in 1..Len(fed) : fed[k].site \in {"user", "gen"}

C6_Witness ==
    /\ pc = "done" /\ args.op = "cached" /\ cache_hit /\ warm = args.sys
    /\ ret.kind = "text"
    /\ \E k \in 1..Len(fed) : fed[k].site = "user" /\ fed[k].pos >= 0
    /\ \E k \in 1..Len(fed) : fed[k].site = "gen" /\ fed[k].pos >= 0

\* nothing is loaded and the record is empty
Unloaded ==
    /\ g_model = NULL /\ g_context = NULL /\ g_vocab = NULL
    /\ ~g_initialized
    /\ liveModels = {} /\ liveContexts = {} /\ kv = <<>>
    /\ g_cached_system_prompt = <<>> /\ g_cached_system_tokens = <<>>
    /\ g_cached_system_length = 0

\* C7: nativeFreeModel ends in the unloaded state from any state, and from
\* the unloaded state it changes nothing of the session.
C7_UnloadTotalAndIdempotent ==
    [][(pc = "idle" /\ pc' = "done" /\ args'.op = "unload") =>
          /\ Unloaded'
          /\ Unloaded => UNCHANGED <<globals, record, backend, g_params>>]_vars

\* the second of two unloads in a row has returned
C7_Witness ==
    pc = "done" /\ args.op = "unload" /\ unloadsInARow = 2 /\ Unloaded

\* C8: from the return of an unload to the next successful load, every
\* estimate is floor(length / 4) and never comes from the tokenizer.
C8_FallbackAfterUnload ==
    (est.path # "none" /\ sinceUnload) =>
       /\ est.path = "fallback"
       /\ 4 * est.value <= Len(est.text) /\ Len(est.text) < 4 * est.value + 4

\* an estimate taken while a later load already holds a vocabulary
C8_Witness ==
    /\ est.path = "fallback" /\ sinceUnload /\ est.value = 1
    /\ pc = "load_init_context" /\ g_vocab # NULL

\* C9: never two live models or two live contexts, no context outlives its
\* model, and the old instances are gone before the new model is created.
C9_SingleLiveInstance ==
    /\ Cardinality(liveModels) <= 1
    /\ Cardinality(liveContexts) <= 1
    /\ \A c \in liveContexts : c.model \in liveModels
    /\ pc = "load_model" => (liveModels = {} /\ liveContexts = {})

\* a load on a loaded session has created its new model
C9_Witness ==
    /\ pc = "load_get_vocab" /\ loaded0
    /\ Cardinality(liveModels) = 1 /\ liveContexts = {}

\* C10: a failed load returns with nothing loaded, nothing left allocated and
\* the stored parameters as they were when the call began.
C10_FailedLoadLeavesUnloaded ==
    (pc = "done" /\ args.op = "load" /\ ~ret.ok) =>
       /\ g_model = NULL /\ g_vocab = NULL /\ g_context = NULL
       /\ ~g_initialized
       /\ liveModels = {} /\ liveContexts = {}
       /\ g_params = params0

\* the context allocation failed in a load on a loaded session
C10_Witness ==
    /\ pc = "done" /\ args.op = "load" /\ ~ret.ok
    /\ ret.err = "Failed to create context"
    /\ loaded0 /\ g_params # DefaultParams

TurnOps == {"generate", "cached", "stream"}
BlockingOps == {"generate", "cached"}
SamplePcs == {"gen_sample", "gwc_sample", "str_sample"}
DecodePcs == {"gen_decode", "gwc_decode", "str_decode"}
FinishPcs == {"gen_finish", "gwc_finish", "str_finish"}

\* the onToken deliveries of the call
TokenEvents == {k \in 1..Len(events) : events[k].kind = "onToken"}

\* C11 as stated: no operation reads the initialized flag or the vocabulary
\* while another operation is between its start and its return; an estimate
\* is only ever taken between calls.
C11_NoOperationOverlapsAnother ==
    est.path # "none" => pc \in {"idle", "done"}

\* C12: in every generation handler the loop samples at most maxTokens tokens
\* and emits at most as many as it sampled (the loop counter is the number of
\* tokens sampled so far, and the loop is left once it reaches maxTokens);
\* with maxTokens = 0 nothing is sampled or emitted and the turn completes
\* with the empty text, or with onComplete alone.
C12_LoopSamplesAtMostMaxTokens ==
    args.op \in TurnOps =>
       /\ Len(sampled) <= args.maxTokens
       /\ Len(response) <= Len(sampled)
       /\ Cardinality(TokenEvents) <= Len(sampled)
       /\ pc \in SamplePcs => i = Len(sampled)
       /\ pc \in DecodePcs => i = Len(sampled) - 1
       /\ (pc \in FinishPcs \cup {"done"} /\ args.maxTokens = 0) =>
             /\ sampled = <<>> /\ response = <<>> /\ TokenEvents = {}
             /\ \A k \in 1..Len(fed) : fed[k].site # "gen"
             /\ (pc = "done" /\ ret.kind = "text") => ret.text = <<>>
             /\ (pc = "done" /\ args.op = "stream" /\ Len(fed) > 0
                   /\ fed[Len(fed)].pos >= 0) =>
                   (Len(events) = 1 /\ events[1].kind = "onComplete")

\* the token budget stopped a loop that never drew the end marker
C12_Witness ==
    /\ pc = "done" /\ args.op = "cached" /\ ret.kind = "text"
    /\ args.maxTokens = MaxTokensArg /\ Len(sampled) = MaxTokensArg
    /\ \A k \in 1..Len(sampled) : ~IsEog(sampled[k])
    /\ \A k \in 1..Len(fed) : fed[k].pos >= 0

\* well-formed UTF-8 (RFC 3629)
InRange(b, lo, hi) == b >= lo /\ b <= hi

\* the second byte a lead byte admits
SecondOk(lead, b) ==
    CASE lead = 224 -> InRange(b, 160, 191)
      [] lead = 237 -> InRange(b, 128, 159)
      [] lead = 240 -> InRange(b, 144, 191)
      [] lead = 244 -> InRange(b, 128, 143)
      [] OTHER -> InRange(b, 128, 191)

\* the number of bytes the form of a lead byte has (0: not a lead byte)
FormLen(b) ==
    IF b <= 127 THEN 1
    ELSE IF InRange(b, 194, 223) THEN 2
    ELSE IF InRange(b, 224, 239) THEN 3
    ELSE IF InRange(b, 240, 244) THEN 4
    ELSE 0

\* t is the first Len(t) bytes of a well-formed codepoint
IsCodepointPrefix(t) ==
    /\ Len(t) >= 1 /\ Len(t) <= FormLen(t[1])
    /\ Len(t) >= 2 => SecondOk(t[1], t[2])
    /\ \A k \in 3..Len(t) : InRange(t[k], 128, 191)

IsCodepoint(t) == IsCodepointPrefix(t) /\ Len(t) = FormLen(t[1])

\* a multi-byte codepoint that lost its last 1 to 3 bytes but not its lead
IsTruncatedCodepoint(t) == IsCodepointPrefix(t) /\ Len(t) < FormLen(t[1])

RECURSIVE WellFormedFrom(_, _)
WellFormedFrom(s, j) ==
    \/ j > Len(s)
    \/ /\ FormLen(s[j]) > 0
       /\ j + FormLen(s[j]) - 1 <= Len(s)
       /\ IsCodepoint(SubSeq(s, j, j + FormLen(s[j]) - 1))
       /\ WellFormedFrom(s, j + FormLen(s[j]))

WellFormed(s) == WellFormedFrom(s, 1)

\* C13: a response that is a concatenation of complete well-formed
\* codepoints of 1, 2, 3 and 4 bytes passes the sanitizer unchanged, byte
\* for byte; the handler returns it through NewStringUTF.
C13_WellFormedRoundTrip ==
    WellFormed(response) =>
       /\ Sanitize(response) = response
       /\ pc = "done" => ret.text = NewStringUTF(response)

\* e-acute, the euro sign and an emoji, one after the other
C13_Witness ==
    /\ pc = "done" /\ WellFormed(response)
    /\ \E a, b, c \in 1..Len(sampled) :
          Len(TokenToPiece(sampled[a])) = 2 /\ Len(TokenToPiece(sampled[b])) = 3
             /\ Len(TokenToPiece(sampled[c])) = 4
    /\ Len(response) = 9 /\ ret.text = response

\* C14: a well-formed response followed by a multi-byte codepoint that lost
\* its last 1 to 3 bytes comes out as the well-formed part alone, unchanged
\* and in order, with no byte of the truncated codepoint.
C14_TruncatedTailIsDropped ==
    \A k \in 0..Len(response) :
       (/\ WellFormed(SubSeq(response, 1, k))
        /\ k < Len(response)
        /\ IsTruncatedCodepoint(SubSeq(response, k + 1, Len(response)))) =>
          /\ Sanitize(response) = SubSeq(response, 1, k)
          /\ pc = "done" => ret.text = NewStringUTF(SubSeq(response, 1, k))

\* the euro sign, then an emoji cut after its third byte
C14_Witness ==
    /\ pc = "done"
    /\ response = <<226, 130, 172, 240, 159, 152>>
    /\ ret.text = <<226, 130, 172>>

\* the last llama_decode of the call was for a generated token, and failed
GenFailed ==
    /\ Len(fed) > 0
    /\ fed[Len(fed)].site = "gen" /\ fed[Len(fed)].pos = -1

ErrorEvents == {k \in 1..Len(events) : events[k].kind = "onError"}
CompleteEvents == {k \in 1..Len(events) : events[k].kind = "onComplete"}

\* C15 as stated: a streaming call whose llama_decode of a generated token
\* failed reports the failure through onError exactly once and delivers no
\* onComplete.
C15_StreamDecodeFailureIsError ==
    (args.op = "stream" /\ pc = "done" /\ GenFailed) =>
       /\ Cardinality(ErrorEvents) = 1
       /\ CompleteEvents = {}

\* C16: a blocking call whose llama_decode of a generated token failed stops
\* at that token and returns, as a text and not as an error, the sanitized
\* pieces of all the tokens it sampled, the one that failed included.
C16_BlockingDecodeFailureReturnsPartial ==
    (args.op \in BlockingOps /\ pc = "done" /\ GenFailed) =>
       /\ ret.kind = "text"
       /\ sampled # <<>>
       /\ fed[Len(fed)].toks = <<sampled[Len(sampled)]>>
       /\ ret.text = NewStringUTF(Sanitize(Pieces(sampled)))

\* the first generated token could not be ingested, and its text is returned
C16_Witness ==
    /\ args.op = "cached" /\ pc = "done" /\ GenFailed
    /\ Len(sampled) = MaxTokensArg
    /\ ret.kind = "text" /\ Len(ret.text) = MaxTokensArg

\* the error of a call that is refused at its boundary reaches the caller
Signalled ==
    IF args.op = "stream"
    THEN Len(events) = 1 /\ events[1].kind = "onError"
    ELSE ret.kind = "error"

TokenizationFailed ==
    /\ pc = "done" /\ args.op \in TurnOps
    /\ \/ ret.err \in {"Error: Tokenization failed",
                       "Error: System prompt tokenization failed",
                       "Error: User message tokenization failed"}
       \/ \E k \in ErrorEvents : events[k].msg = "Tokenization failed"

\* C18 as stated: when a tokenize call fails, the decode state and the cache
\* record at the return are what they were when the call started.
C18_TokenizationFailureChangesNothing ==
    TokenizationFailed => (kv = kv0 /\ record = record0)

\* C19 as stated: when nativeGenerate samples its first token the decode
\* state holds the tokens of this call's prompt at the positions 0..n-1 and
\* nothing else.
C19_GenerateIngestsFresh ==
    (args.op = "generate" /\ pc = "gen_sample" /\ i = 0) =>
       kv = Tokenize(args.text, TRUE)

\* C20: an end marker is the last token a loop samples: the loop is left at
\* once, the text built or delivered is that of the tokens before it, and
\* the marker is never passed to llama_decode nor resident in the decode
\* state.
C20_EndMarkerStopsUnemittedUningested ==
    /\ \A k \in 1..Len(sampled) : IsEog(sampled[k]) =>
          /\ k = Len(sampled)
          /\ pc \in FinishPcs \/ Ended
          /\ i = k - 1
          /\ args.op \in BlockingOps => response = Pieces(SubSeq(sampled, 1, k - 1))
          /\ args.op = "stream" => Cardinality(TokenEvents) = k - 1
          /\ (pc = "done" /\ args.op \in BlockingOps) =>
                ret.text = NewStringUTF(Sanitize(Pieces(SubSeq(sampled, 1, k - 1))))
    /\ \A k \in 1..Len(fed) : \A j \in 1..Len(fed[k].toks) : ~IsEog(fed[k].toks[j])
    /\ \A k \in 1..Len(kv) : ~IsEog(kv[k])

\* the first token drawn in a streaming turn is the end marker
C20_Witness ==
    /\ pc = "done" /\ args.op = "stream"
    /\ sampled # <<>> /\ IsEog(sampled[Len(sampled)])
    /\ Len(events) = Len(sampled) /\ events[Len(events)].kind = "onComplete"
    /\ \A k \in 1..Len(fed) : fed[k].pos >= 0


(***************************************************************************)
(* Ingestion bookkeeping shared by the claims on the order of a turn       *)
(***************************************************************************)
\* the chunks submitted at one ingestion site of the call, concatenated in
\* the order of submission
RECURSIVE FedToks(_, _)
FedToks(f, site) ==
    IF f = <<>> THEN <<>>
    ELSE (IF Head(f).site = site THEN Head(f).toks ELSE <<>>)
         \o FedToks(Tail(f), site)

SiteEntries(site) == {k \in 1..Len(fed) : fed[k].site = site}
SiteOk(site) == \A k \in SiteEntries(site) : fed[k].pos >= 0

\* what each site has to ingest
SysInput == Tokenize(FormatSys(args.sys), TRUE)
UserInput == Tokenize(FormatUser(args.text), FALSE)
PromptInput == Tokenize(args.text, TRUE)

Ingested(site, input) == SiteOk(site) /\ FedToks(fed, site) = input

\* C21: on a Miss the handler clears the Decode State, then tokenizes and
\* ingests the framed prefix, then overwrites the record: the record is still
\* the one the call found until every prefix chunk has been ingested, and the
\* new record is the incoming raw prefix text, the tokens of its framed form
\* and their count.
NewRecord == <<SysInput, Len(SysInput), args.sys>>

C21_MissClearsIngestsThenStores ==
    args.op = "cached" =>
       /\ pc = "gwc_sys_tokenize" =>
             kv = <<>> /\ fed = <<>> /\ record = record0
       /\ pc = "gwc_sys_ingest" =>
             record = record0 /\ SiteOk("sys") /\ kv = FedToks(fed, "sys")
       /\ pc = "gwc_store" =>
             record = record0 /\ Ingested("sys", SysInput) /\ kv = SysInput
       /\ record # record0 =>
             /\ ~cache_hit
             /\ Ingested("sys", SysInput)
             /\ fed[1].pos = 0
             /\ record = NewRecord
       /\ (~cache_hit /\ Ingested("sys", SysInput)
              /\ pc \notin {"gwc_sys_ingest", "gwc_store"}) =>
             record = NewRecord

\* a Miss that replaced an earlier record, over a memory that held positions
C21_Witness ==
    /\ args.op = "cached" /\ ~cache_hit /\ pc = "gwc_user_tokenize"
    /\ record0[2] > 0 /\ kv0 # <<>>
    /\ record # record0 /\ record = NewRecord


\* C22: at every ingestion site the token sequence is submitted as chunks of
\* 1 to 2048 tokens, each chunk starting where the one before it ended, in
\* order; when all of them succeed their concatenation is the input.
ChunkSites == {"prompt", "sys", "user"}

SiteInput(site) ==
    CASE site = "prompt" -> PromptInput
      [] site = "sys" -> SysInput
      [] site = "user" -> UserInput

IngestPc(site) ==
    CASE site = "prompt" -> (IF args.op = "stream" THEN "str_ingest"
                             ELSE "gen_ingest")
      [] site = "sys" -> "gwc_sys_ingest"
      [] site = "user" -> "gwc_user_ingest"

\* tokens of the site's input submitted before the k-th submission
Offset(k) == Len(FedToks(SubSeq(fed, 1, k - 1), fed[k].site))

C22_ChunksPartitionTheInput ==
    /\ \A k \in 1..Len(fed) :
          fed[k].site \in ChunkSites =>
             /\ Len(fed[k].toks) >= 1
             /\ Len(fed[k].toks) <= 2048
             /\ Offset(k) + Len(fed[k].toks) <= Len(SiteInput(fed[k].site))
             /\ fed[k].toks = SubSeq(SiteInput(fed[k].site), Offset(k) + 1,
                                     Offset(k) + Len(fed[k].toks))
    /\ \A site \in ChunkSites :
          (SiteEntries(site) # {} /\ SiteOk(site) /\ pc # IngestPc(site)) =>
             FedToks(fed, site) = SiteInput(site)

\* an input one token longer than two full chunks, ingested as three chunks
C22_Witness ==
    /\ pc = "gen_sample" /\ Len(fed) = 3 /\ SiteOk("prompt")
    /\ Len(fed[1].toks) = 2048 /\ Len(fed[2].toks) = 2048
    /\ Len(fed[3].toks) = 1
    /\ FedToks(fed, "prompt") = PromptInput

\* C23: a chunk whose llama_decode fails is the last submission of the call
\* (no later chunk, no second attempt), the call ends with the failure
\* surfaced (the error text, or onError for the streaming handler), and the
\* chunks ingested before it are still resident at their positions.
FailedChunks ==
    {k \in 1..Len(fed) : fed[k].site \in ChunkSites /\ fed[k].pos = -1}

SiteError(site) ==
    CASE site = "prompt" -> "Error: Prompt processing failed"
      [] site = "sys" -> "Error: System prompt processing failed"
      [] site = "user" -> "Error: User message processing failed"

Resident(e) ==
    /\ e.pos >= 0
    /\ e.pos + Len(e.toks) <= Len(kv)
    /\ SubSeq(kv, e.pos + 1, e.pos + Len(e.toks)) = e.toks

C23_FailedChunkEndsTheCall ==
    \A k \in FailedChunks :
       /\ k = Len(fed)
       /\ Ended
       /\ IF args.op = "stream"
          THEN /\ events = <<Event("onError", <<>>, "Prompt processing failed")>>
               /\ pc = "done" => ret = VoidRet
          ELSE /\ events = <<>>
               /\ ret = ErrRet(SiteError(fed[k].site))
       /\ \A j \in 1..(k - 1) : Resident(fed[j])

\* the second or a later chunk of a site fails after full chunks went in
C23_Witness ==
    \E k \in FailedChunks :
       /\ k >= 2 /\ fed[k - 1].site = fed[k].site
       /\ pc = "done" /\ Len(kv) >= CHUNK_SIZE
       /\ Resident(fed[k - 1])


\* C24: no token is sampled, and the sampling loop is not entered, unless
\* every tokenization and every prompt chunk of the call succeeded before (in
\* the cached handler: the prefix decision, the prefix ingestion on a Miss and
\* the user-turn ingestion); a call that returns on a tokenization or
\* ingestion failure has sampled nothing.
Generating == pc \in SamplePcs \cup DecodePcs \cup FinishPcs

\* every submission of the prompt came before every submission of the loop
PromptBeforeLoop ==
    \A j \in 1..Len(fed), k \in 1..Len(fed) :
       (j < k /\ fed[j].site = "gen") => fed[k].site = "gen"

AllIngested ==
    IF args.op = "cached"
    THEN /\ Ingested("user", UserInput)
         /\ IF cache_hit THEN SiteEntries("sys") = {}
            ELSE Ingested("sys", SysInput) /\ record = NewRecord
    ELSE Ingested("prompt", PromptInput)

IngestionFailed == pc = "done" /\ (TokenizationFailed \/ FailedChunks # {})

C24_SamplingOnlyAfterIngestion ==
    args.op \in TurnOps =>
       /\ (Generating \/ sampled # <<>> \/ SiteEntries("gen") # {}) =>
             (AllIngested /\ PromptBeforeLoop)
       /\ IngestionFailed =>
             (sampled = <<>> /\ SiteEntries("gen") = {} /\ response = <<>>
              /\ TokenEvents = {})

\* a cached Miss turn that sampled a token after both ingestions, and a call
\* that ended on a failed chunk
C24_Witness ==
    /\ args.op = "cached" /\ ~cache_hit /\ pc = "gwc_decode"
    /\ sampled # <<>> /\ AllIngested

C24_WitnessFailure ==
    /\ args.op \in TurnOps /\ IngestionFailed /\ FailedChunks # {}


\* C25: whatever bytes the loop produced, what the sanitizer lets through is
\* a subsequence of them, in order, that parses from its first byte to its
\* last as ASCII bytes and groups of a lead byte 0xC0-0xDF, 0xE0-0xEF or
\* 0xF0-0xF7 with exactly 1, 2 or 3 continuation bytes after it: no
\* continuation byte outside a group, no lead without its continuation bytes,
\* no byte from 0xF8 on, no byte that was not in the input.  This holds of the
\* text a blocking handler returns and of every text given to onToken.
GroupLen(b) ==
    IF b <= 127 THEN 1
    ELSE IF InRange(b, 192, 223) THEN 2
    ELSE IF InRange(b, 224, 239) THEN 3
    ELSE IF InRange(b, 240, 247) THEN 4
    ELSE 0

RECURSIVE OnlyGroupsFrom(_, _)
OnlyGroupsFrom(out, j) ==
    \/ j > Len(out)
    \/ /\ GroupLen(out[j]) > 0
       /\ j + GroupLen(out[j]) - 1 <= Len(out)
       /\ \A m \in 1..(GroupLen(out[j]) - 1) : InRange(out[j + m], 128, 191)
       /\ OnlyGroupsFrom(out, j + GroupLen(out[j]))

OnlyGroups(out) == OnlyGroupsFrom(out, 1)

RECURSIVE IsSubseq(_, _)
IsSubseq(a, b) ==
    IF a = <<>> THEN TRUE
    ELSE IF b = <<>> THEN FALSE
    ELSE IF Head(a) = Head(b) THEN IsSubseq(Tail(a), Tail(b))
    ELSE IsSubseq(a, Tail(b))

\* the byte fragments the loop got from llama_token_to_piece, in order: one
\* for each sampled token that is not the end marker and has bytes
RECURSIVE Fragments(_)
Fragments(toks) ==
    IF toks = <<>> THEN <<>>
    ELSE (IF IsEog(Head(toks)) \/ TokenToPiece(Head(toks)) = <<>> THEN <<>>
          ELSE <<TokenToPiece(Head(toks))>>)
         \o Fragments(Tail(toks))

C25_OutputIsSubsequenceOfGroups ==
    /\ (args.op \in BlockingOps /\ pc = "done") =>
          /\ ret.text = NewStringUTF(Sanitize(response))
          /\ IsSubseq(Sanitize(response), response)
          /\ OnlyGroups(Sanitize(response))
          /\ IsSubseq(ret.text, response) /\ OnlyGroups(ret.text)
    /\ args.op = "stream" =>
          \A k \in TokenEvents :
             /\ k <= Len(Fragments(sampled))
             /\ IsSubseq(events[k].text, Fragments(sampled)[k])
             /\ OnlyGroups(events[k].text)

\* an invalid byte, a continuation byte on its own and e-acute: only the
\* e-acute comes out
C25_Witness ==
    /\ args.op = "cached" /\ pc = "done"
    /\ Len(response) = 4
    /\ \E j \in 1..4 : response[j] = 255
    /\ \E j \in 1..4 : response[j] = 169 /\ (j = 1 \/ response[j - 1] # 195)
    /\ ret.text = <<195, 169>>


\* C26: in nativeGenerateStreaming the k-th onToken carries the text of the
\* k-th sampled token that has bytes; it has been delivered by the time the
\* token is submitted to llama_decode, and the next token is sampled only
\* after that submission.  The onToken deliveries of a call are never more
\* than the tokens sampled that are not the end marker, which are never more
\* than maxTokens.
NonEos(toks) == {k \in 1..Len(toks) : ~IsEog(toks[k])}

\* the submissions of sampled tokens, in order
LoopEntries == SiteEntries("gen")

C26_TokenTextDeliveredBeforeIngestion ==
    args.op = "stream" =>
       /\ Cardinality(TokenEvents) <= Cardinality(NonEos(sampled))
       /\ Cardinality(NonEos(sampled)) <= args.maxTokens
       \* every sampled token with bytes has had its text delivered, in order
       /\ TokenEvents = 1..Len(Fragments(sampled))
       /\ \A k \in TokenEvents :
             events[k].text = NewStringUTF(Sanitize(Fragments(sampled)[k]))
       \* the j-th submission of the loop is the j-th sampled token
       /\ Cardinality(LoopEntries) <= Cardinality(NonEos(sampled))
       /\ \A k \in LoopEntries :
             fed[k].toks = <<sampled[Cardinality({j \in LoopEntries : j <= k})]>>
       \* sampled and delivered, not yet submitted
       /\ pc = "str_decode" =>
             Cardinality(LoopEntries) = Len(sampled) - 1
       \* the token before has been submitted when the next one is sampled
       /\ pc = "str_sample" =>
             Cardinality(LoopEntries) = Len(sampled)

\* the third token has been sampled and its text delivered, it is not yet
\* submitted; one of the three tokens had no bytes
C26_Witness ==
    /\ args.op = "stream" /\ pc = "str_decode"
    /\ Len(sampled) = 3 /\ Cardinality(LoopEntries) = 2
    /\ Cardinality(TokenEvents) = 2
    /\ TokenToPiece(sampled[2]) = <<>>
    /\ events[2].text = TokenToPiece(sampled[3])


(***************************************************************************)
(* The streaming texts against the blocking text                           *)
(***************************************************************************)
RECURSIVE Flatten(_)
Flatten(frags) ==
    IF frags = <<>> THEN <<>> ELSE Head(frags) \o Flatten(Tail(frags))

\* the texts handed to onToken, one after the other
RECURSIVE StreamedText(_)
StreamedText(ev) ==
    IF ev = <<>> THEN <<>>
    ELSE (IF Head(ev).kind = "onToken" THEN Head(ev).text ELSE <<>>)
         \o StreamedText(Tail(ev))

\* the offsets in the concatenated bytes at which a fragment ends
RECURSIVE FragmentEnds(_, _)
FragmentEnds(frags, base) ==
    IF frags = <<>> THEN {}
    ELSE {base + Len(Head(frags))}
         \cup FragmentEnds(Tail(frags), base + Len(Head(frags)))

\* the group of n bytes at j is a group the blocking sanitizer emits
GroupAt(s, j, n) ==
    /\ GroupLen(s[j]) = n
    /\ j + n - 1 <= Len(s)
    /\ \A m \in 1..(n - 1) : InRange(s[j + m], 128, 191)

\* the group of n bytes at j has bytes of two fragments
Spans(j, n, ends) == \E e \in ends : j <= e /\ e < j + n - 1

\* the blocking sanitizer's pass over the concatenated bytes, leaving out the
\* groups that span a fragment boundary
RECURSIVE UnsplitFrom(_, _, _)
UnsplitFrom(s, j, ends) ==
    IF j > Len(s) THEN <<>>
    ELSE IF GroupLen(s[j]) > 0 /\ GroupAt(s, j, GroupLen(s[j]))
         THEN (IF Spans(j, GroupLen(s[j]), ends) THEN <<>>
               ELSE SubSeq(s, j, j + GroupLen(s[j]) - 1))
              \o UnsplitFrom(s, j + GroupLen(s[j]), ends)
         ELSE UnsplitFrom(s, j + 1, ends)

\* no group of the blocking pass has bytes of two fragments
RECURSIVE NoSplitFrom(_, _, _)
NoSplitFrom(s, j, ends) ==
    \/ j > Len(s)
    \/ IF GroupLen(s[j]) > 0 /\ GroupAt(s, j, GroupLen(s[j]))
       THEN /\ ~Spans(j, GroupLen(s[j]), ends)
            /\ NoSplitFrom(s, j + GroupLen(s[j]), ends)
       ELSE NoSplitFrom(s, j + 1, ends)

\* what a blocking handler returns for the tokens sampled so far
BlockingText(toks) == NewStringUTF(Sanitize(Flatten(Fragments(toks))))

\* the blocking text without the codepoints that span a fragment boundary
BlockingTextUnsplit(toks) ==
    NewStringUTF(UnsplitFrom(Flatten(Fragments(toks)), 1,
                             FragmentEnds(Fragments(toks), 0)))

\* C27 as stated: for the same sampled tokens, the texts given to onToken, put
\* together, are the text a blocking handler returns without the codepoints
\* that span a fragment boundary; they are the blocking text itself when no
\* codepoint is split.
C27_StreamedTextIsBlockingTextUnsplit ==
    /\ (args.op \in BlockingOps /\ pc = "done" /\ ret.kind = "text") =>
          ret.text = BlockingText(sampled)
    /\ args.op = "stream" =>
          /\ StreamedText(events) = BlockingTextUnsplit(sampled)
          /\ NoSplitFrom(Flatten(Fragments(sampled)), 1,
                         FragmentEnds(Fragments(sampled), 0)) =>
                StreamedText(events) = BlockingText(sampled)

\* the same with no zero byte among the bytes produced
C27_SameWithoutZeroByte ==
    (\A k \in 1..Len(Flatten(Fragments(sampled))) :
        Flatten(Fragments(sampled))[k] # 0) =>
       C27_StreamedTextIsBlockingTextUnsplit


\* C28: the record changes in two steps only: nativeFreeModel makes it empty,
\* and the store of a Miss turn whose prefix chunks were all ingested makes
\* it the new record.  Every other step (of nativeLoadModel, nativeGenerate,
\* nativeGenerateStreaming, nativeGetTokenCount, a Hit turn, a Miss turn
\* before its store or after it) leaves it as it is.
UnloadStep == pc = "idle" /\ pc' = "done" /\ args'.op = "unload"

StoreStep ==
    /\ pc = "gwc_store" /\ pc' = "gwc_user_tokenize"
    /\ args.op = "cached" /\ ~cache_hit
    /\ Ingested("sys", SysInput)

C28_RecordChangesOnlyOnUnloadAndStore ==
    [][/\ record' # record => (UnloadStep \/ StoreStep)
       /\ UnloadStep => record' = NoRecord
       /\ StoreStep => record' = NewRecord]_vars

\* a successful load on a loaded session has returned and the record of the
\* model before it is still there
C28_Witness ==
    /\ pc = "done" /\ args.op = "load" /\ ret.ok /\ loaded0
    /\ g_cached_system_length > 0 /\ record # NoRecord

\* C29: between operations the session is loaded or unloaded, nothing in
\* between: initialized is true exactly when the model, vocabulary and context
\* handles are all non-null, and false exactly when all three are null.
C29_LoadedOrUnloaded ==
    AfterCall =>
       /\ g_initialized <=>
             (g_model # NULL /\ g_vocab # NULL /\ g_context # NULL)
       /\ ~g_initialized <=>
             (g_model = NULL /\ g_vocab = NULL /\ g_context = NULL)

\* a load on a loaded session failed at the vocabulary
C29_Witness ==
    /\ pc = "done" /\ args.op = "load" /\ ~ret.ok /\ loaded0
    /\ ret.err = "Failed to get vocab from model"
    /\ ~g_initialized /\ g_model = NULL /\ g_vocab = NULL /\ g_context = NULL

\* C30: between operations the record's count is the length of its token
\* sequence, and the record is either empty (no text, no tokens, count 0) or
\* has a positive count and the tokens of the framed form of its own text,
\* stored together by one Miss turn.
C30_RecordConsistent ==
    AfterCall =>
       /\ g_cached_system_length = Len(g_cached_system_tokens)
       /\ \/ record = NoRecord
          \/ /\ g_cached_system_length > 0
             /\ g_cached_system_tokens =
                   Tokenize(FormatSys(g_cached_system_prompt), TRUE)

\* a Miss turn has replaced the record of an earlier Miss turn and returned
C30_Witness ==
    /\ pc = "done" /\ args.op = "cached" /\ ~cache_hit
    /\ record0[2] > 0 /\ record # record0
    /\ g_cached_system_length = 4 /\ g_cached_system_prompt = <<32>>


(***************************************************************************)
(* The session lock and the callbacks.                                     *)
(***************************************************************************)
\* a callback of the call has been delivered and has called a locking
\* operation
NestedLocking == nested \in LockingCalls

\* C31: the lock is free whenever no handler is in progress, whichever return
\* ended the last one, and it is held while onToken, onComplete or onError
\* runs; so once a callback has called loadModel, unloadModel, generate,
\* generateWithCache or generateStreaming the streaming call never returns
\* (it stays blocked on the lock, or the process has ended), while a call
\* whose callbacks have called nativeGetTokenCount only is never blocked.
C31_CallbacksRunUnderTheLock ==
    /\ pc \in {"idle", "done"} => g_mutex = "free"
    /\ pc \in CallbackPcs => g_mutex = "held"
    /\ NestedLocking => pc \in {"deadlocked", "crashed"}
    /\ nested = "estimateTokenCount" => pc \notin {"deadlocked", "crashed"}

\* a streaming call is blocked for ever inside onToken, whose callback
\* called generate
C31_Witness ==
    /\ pc = "deadlocked" /\ nested = "generate" /\ g_mutex = "held"
    /\ events # <<>> /\ events[Len(events)].kind = "onToken"

\* a streaming call has returned after onToken and onComplete, whose
\* callbacks called nativeGetTokenCount
C31_WitnessEstimate ==
    /\ pc = "done" /\ nested = "estimateTokenCount" /\ g_mutex = "free"
    /\ \E k \in 1..Len(events) : events[k].kind = "onToken"
    /\ events[Len(events)].kind = "onComplete"

\* onError's callback called loadModel on a session that is not loaded
C31_WitnessError ==
    /\ pc = "deadlocked" /\ nested = "loadModel"
    /\ Len(events) = 1 /\ events[1].kind = "onError"

====
